---------------------------- MODULE Spec2Model ----------------------------
(***************************************************************************)
(* A model of ai_assistant.py: the keyword intent classifier parse_intent, *)
(* the value classes UserProfile / Request / Response with their           *)
(* precondition asserts, the three AIAssistant variants, and the driver    *)
(* loop of the __main__ block.                                             *)
(*                                                                         *)
(* Representation.  A Python str that the classifier reads is a sequence   *)
(* of one-character strings, so that lower-casing, stripping and the       *)
(* regular-expression search are computed character by character.  A      *)
(* message built by an f-string is the sequence of its fragments (its      *)
(* concatenation is the printed text).  A float is its number of           *)
(* hundredths together with its Python type.  The asserts are modelled as  *)
(* executed (the interpreter is not run with -O).                          *)
(***************************************************************************)
EXTENDS Integers, Sequences, FiniteSets, TLC

VARIABLES
    text,       \* the str under classification / the driver's user_input
    parsed,     \* what parse_intent returned in the last operation, or NotRun
    kind,       \* the class of the assistant object
    profile,    \* the UserProfile bound to the assistant (self.profile)
    request,    \* <<>> or <<r>>: the Request object the caller holds
    reqArgs,    \* <<>> or <<a>>: arguments of the last Request(...) call
    respArgs,   \* <<>> or <<a>>: arguments of the last direct Response(...) call
    op,         \* the last operation executed
    raised,     \* the exception the last operation raised, or NoException
    responses,  \* the Response objects created so far, in creation order
    pc,         \* the driver's position
    idx,        \* the driver's position in zip(assistants, user_inputs)
    out,        \* the lines the driver has printed
    now         \* the wall clock, in half minutes since midnight

vars == <<text, parsed, kind, profile, request, reqArgs, respArgs, op, raised,
          responses, pc, idx, out, now>>

----------------------------------------------------------------------------
(* Bounds of the model *)

\* longest classified text, in chunks of ChunkSet
MaxChunks == 3
\* most Response objects kept alive at once
MaxResponses == 2
\* last value of the wall clock
MaxClock == 3

----------------------------------------------------------------------------
(* Characters and the str methods the program uses *)

UpperLetters == <<"A","B","C","D","E","F","G","H","I","J","K","L","M",
                  "N","O","P","Q","R","S","T","U","V","W","X","Y","Z">>
LowerLetters == <<"a","b","c","d","e","f","g","h","i","j","k","l","m",
                  "n","o","p","q","r","s","t","u","v","w","x","y","z">>
Digits == {"0","1","2","3","4","5","6","7","8","9"}
Range(s) == {s[i] : i \in DOMAIN s}

\* the lower-case letter of each upper-case letter
LowerOf ==
    [c \in Range(UpperLetters) |->
        LowerLetters[CHOOSE i \in DOMAIN UpperLetters : UpperLetters[i] = c]]

\* str.lower() on one character
LowerChar(c) == IF c \in DOMAIN LowerOf THEN LowerOf[c] ELSE c

\* str.lower()
Lower(s) == [i \in DOMAIN s |-> LowerChar(s[i])]

\* the characters str.strip() removes
Whitespace == {" ", "\t", "\n", "\r"}

\* str.strip(): drop leading and trailing whitespace
Strip(s) ==
    LET keep == {i \in DOMAIN s : s[i] \notin Whitespace}
    IN  IF keep = {} THEN <<>>
        ELSE LET lo == CHOOSE i \in keep : \A j \in keep : i <= j
                 hi == CHOOSE i \in keep : \A j \in keep : j <= i
             IN  SubSeq(s, lo, hi)

\* the regular expression class \w
WordChars == Range(UpperLetters) \cup Range(LowerLetters) \cup Digits \cup {"_"}
IsWordChar(c) == c \in WordChars

\* whether position p of s (1..Len(s)) holds a \w character
WordAt(s, p) == p \in DOMAIN s /\ IsWordChar(s[p])

\* the assertion \b between s[p] and s[p+1], p in 0..Len(s)
Boundary(s, p) == WordAt(s, p) # WordAt(s, p + 1)

\* the literal w matches s starting at position i
MatchAt(s, w, i) ==
    /\ i + Len(w) - 1 <= Len(s)
    /\ \A k \in 1..Len(w) : s[i + k - 1] = w[k]

\* SearchWord without the \b assertions: a keyword inside a longer word counts
SearchWord_Substring(words, s) ==
    \E i \in 1..Len(s) : \E w \in words : MatchAt(s, w, i)

\* re.search(r"\b(w1|w2|...)\b", s) is not None
SearchWord(words, s) ==
    \E i \in 1..Len(s) : \E w \in words :
        /\ Boundary(s, i - 1)
        /\ MatchAt(s, w, i)
        /\ Boundary(s, i + Len(w) - 1)

----------------------------------------------------------------------------
(* CommandType and parse_intent *)

UNKNOWN == "UNKNOWN"
RECOMMEND_MUSIC == "RECOMMEND_MUSIC"
SUGGEST_WORKOUT == "SUGGEST_WORKOUT"
SCHEDULE_STUDY == "SCHEDULE_STUDY"
CommandType == {UNKNOWN, RECOMMEND_MUSIC, SUGGEST_WORKOUT, SCHEDULE_STUDY}

Kw_music == <<"m","u","s","i","c">>
Kw_song == <<"s","o","n","g">>
Kw_play == <<"p","l","a","y">>
Kw_workout == <<"w","o","r","k","o","u","t">>
Kw_exercise == <<"e","x","e","r","c","i","s","e">>
Kw_train == <<"t","r","a","i","n">>
Kw_study == <<"s","t","u","d","y">>
Kw_schedule == <<"s","c","h","e","d","u","l","e">>
Kw_learn == <<"l","e","a","r","n">>

MusicWords == {Kw_music, Kw_song, Kw_play}
WorkoutWords == {Kw_workout, Kw_exercise, Kw_train}
StudyWords == {Kw_study, Kw_schedule, Kw_learn}

\* parse_intent with the workout test moved before the music test
parse_intent_WorkoutFirst(input_str) ==
    LET t == Lower(input_str)
    IN  IF SearchWord(WorkoutWords, t) THEN SUGGEST_WORKOUT
        ELSE IF SearchWord(MusicWords, t) THEN RECOMMEND_MUSIC
        ELSE IF SearchWord(StudyWords, t) THEN SCHEDULE_STUDY
        ELSE UNKNOWN

parse_intent(input_str) ==
    LET t == Lower(input_str)
    IN  IF SearchWord(MusicWords, t) THEN RECOMMEND_MUSIC
        ELSE IF SearchWord(WorkoutWords, t) THEN SUGGEST_WORKOUT
        ELSE IF SearchWord(StudyWords, t) THEN SCHEDULE_STUDY
        ELSE UNKNOWN

----------------------------------------------------------------------------
(* The texts the classifier is run on: up to MaxChunks chunks, each a      *)
(* keyword (in some letter case), a suffix that makes a longer word, or a  *)
(* separator (a space, punctuation, or the word character "_").            *)

ChunkSet ==
    { Kw_music, <<"S","o","n","g">>, Kw_play,
      <<"W","O","R","K","O","U","T">>, Kw_exercise, <<"T","r","a","i","n">>,
      Kw_study, <<"s","c","h","e","d","u","L","E">>, Kw_learn,
      <<"i","n","g">>, <<"e","r">>, <<"a","l">>,
      <<" ">>, <<"?">>, <<"_">> }

RECURSIVE TextsOf(_, _)
TextsOf(chunks, n) ==
    IF n = 0 THEN {<<>>}
    ELSE LET shorter == TextsOf(chunks, n - 1)
         IN  shorter \cup {t \o c : t \in shorter, c \in chunks}

Texts == TextsOf(ChunkSet, MaxChunks)

NotRun == "NotRun"
NoException == "NoException"
AssertionError == "AssertionError"

----------------------------------------------------------------------------
(* Specification of the classifier alone: a text is chosen, then classified *)

ClassifyInit ==
    /\ text \in Texts
    /\ parsed = NotRun
    /\ kind = "MusicAssistant"
    /\ profile = [name |-> "Alice", age |-> 30,
                  preferences |-> [k \in {"mood"} |-> "happy"],
                  is_premium |-> TRUE]
    /\ request = <<>>
    /\ reqArgs = <<>>
    /\ respArgs = <<>>
    /\ op = "init"
    /\ raised = NoException
    /\ responses = <<>>
    /\ pc = "idle"
    /\ idx = 0
    /\ out = <<>>
    /\ now = 0

Classify ==
    /\ parsed = NotRun
    /\ parsed' = parse_intent(text)
    /\ op' = "parse_intent"
    /\ UNCHANGED <<text, kind, profile, request, reqArgs, respArgs, raised,
                   responses, pc, idx, out, now>>

ClassifyNext == Classify

ClassifySpec == ClassifyInit /\ [][ClassifyNext]_vars

----------------------------------------------------------------------------
(* Python values that reach a type check *)

\* a float, as its number of hundredths
PyFloat(h) == [type |-> "float", val |-> h]
\* an int (1 is 100 hundredths)
PyInt(n) == [type |-> "int", val |-> n * 100]

None == [type |-> "NoneType", val |-> "None"]
Member(c) == [type |-> "CommandType", val |-> c]
IntZero == [type |-> "int", val |-> "0"]
StrValue(s) == [type |-> "str", val |-> s]

\* bool(v) if the members were numbered from 0 in an IntEnum: UNKNOWN is false
Truthy_ZeroBased(v) ==
    CASE v.type = "NoneType" -> FALSE
      [] v.type = "int" -> v.val # "0"
      [] v.type = "str" -> v.val # ""
      [] v.type = "CommandType" -> v.val # "UNKNOWN"

\* bool(v): None, 0 and "" are false; Enum members are all true (the enum
\* mixes in no other type, so auto() numbering from 1 plays no part)
Truthy(v) ==
    CASE v.type = "NoneType" -> FALSE
      [] v.type = "int" -> v.val # "0"
      [] v.type = "str" -> v.val # ""
      [] v.type = "CommandType" -> TRUE

\* datetime: the clock reading c (half minutes since midnight)
Datetime(c) ==
    [date |-> "2025-05-01", hour |-> (c \div 120) % 24,
     minute |-> (c \div 2) % 60, second |-> (c % 2) * 30]

Pad2(n) == IF n < 10 THEN "0" \o ToString(n) ELSE ToString(n)

\* datetime.strftime("%Y-%m-%d %H:%M")
Strftime(ts) == ts.date \o " " \o Pad2(ts.hour) \o ":" \o Pad2(ts.minute)

\* the str made of the characters of s
RECURSIVE Str(_)
Str(s) == IF s = <<>> THEN "" ELSE Head(s) \o Str(Tail(s))

----------------------------------------------------------------------------
(* Request and Response: a constructor returns the exception it raised,    *)
(* the classifier's result if it ran, and the object if one was built.     *)

\* Request.__init__ asserting input_str instead of input_str.strip()
Request_init_NoStrip(input_str, timestamp, command) ==
    IF input_str = <<>>
    THEN [raised |-> AssertionError, parsed |-> NotRun, obj |-> <<>>]
    ELSE LET ran == ~Truthy(command)
             intent == IF ran THEN parse_intent(input_str) ELSE NotRun
             cmd == IF ran THEN Member(intent) ELSE command
         IN  IF cmd.type # "CommandType"
             THEN [raised |-> AssertionError, parsed |-> intent, obj |-> <<>>]
             ELSE [raised |-> NoException, parsed |-> intent,
                   obj |-> << [input |-> input_str,
                               timestamp |-> timestamp,
                               command_type |-> cmd.val] >>]

\* Request.__init__ falling back to UNKNOWN instead of parse_intent
Request_init_NoInference(input_str, timestamp, command) ==
    IF Strip(input_str) = <<>>
    THEN [raised |-> AssertionError, parsed |-> NotRun, obj |-> <<>>]
    ELSE LET cmd == IF Truthy(command) THEN command ELSE Member(UNKNOWN)
         IN  IF cmd.type # "CommandType"
             THEN [raised |-> AssertionError, parsed |-> NotRun, obj |-> <<>>]
             ELSE [raised |-> NoException, parsed |-> NotRun,
                   obj |-> << [input |-> input_str,
                               timestamp |-> timestamp,
                               command_type |-> cmd.val] >>]

Request_init(input_str, timestamp, command) ==
    IF Strip(input_str) = <<>>
    THEN [raised |-> AssertionError, parsed |-> NotRun, obj |-> <<>>]
    ELSE LET ran == ~Truthy(command)
             intent == IF ran THEN parse_intent(input_str) ELSE NotRun
             cmd == IF ran THEN Member(intent) ELSE command
         IN  IF cmd.type # "CommandType"
             THEN [raised |-> AssertionError, parsed |-> intent, obj |-> <<>>]
             ELSE [raised |-> NoException, parsed |-> intent,
                   obj |-> << [input |-> input_str,
                               timestamp |-> timestamp,
                               command_type |-> cmd.val] >>]

\* Response.__init__ checking only 0.0 <= confidence
Response_init_NoUpperBound(message, confidence, action_performed) ==
    IF confidence.type = "float" /\ 0 <= confidence.val
    THEN [raised |-> NoException,
          obj |-> << [message |-> message,
                      confidence |-> confidence,
                      action_performed |-> action_performed] >>]
    ELSE [raised |-> AssertionError, obj |-> <<>>]

Response_init(message, confidence, action_performed) ==
    IF confidence.type = "float" /\ 0 <= confidence.val /\ confidence.val <= 100
    THEN [raised |-> NoException,
          obj |-> << [message |-> message,
                      confidence |-> confidence,
                      action_performed |-> action_performed] >>]
    ELSE [raised |-> AssertionError, obj |-> <<>>]

----------------------------------------------------------------------------
(* UserProfile and the assistants *)

\* dict.get(key, default)
DictGet(d, key, default) == IF key \in DOMAIN d THEN d[key] ELSE default

greet_user(self_profile) ==
    Response_init(<<"Hello, ", self_profile.name,
                    "! How can assistance begin today?">>,
                  PyFloat(100), FALSE)

\* recommend_playlist reading the key 'Mood'
recommend_playlist_WrongKey(self_profile, req) ==
    LET mood == DictGet(self_profile.preferences, "Mood", "neutral")
    IN  Response_init(<<"Recommended playlist based on mood '", mood, "': ",
                        "['", "Song_", mood, "_1", "', '",
                        "Song_", mood, "_2", "']">>,
                      PyFloat(90), TRUE)

recommend_playlist(self_profile, req) ==
    LET mood == DictGet(self_profile.preferences, "mood", "neutral")
    IN  Response_init(<<"Recommended playlist based on mood '", mood, "': ",
                        "['", "Song_", mood, "_1", "', '",
                        "Song_", mood, "_2", "']">>,
                      PyFloat(90), TRUE)

suggest_workout(self_profile, req) ==
    LET goal == DictGet(self_profile.preferences, "fitness_goal",
                        "general fitness")
    IN  Response_init(<<"Suggested workout: ", "30 minutes of ", goal,
                        " exercises">>,
                      PyFloat(85), TRUE)

schedule_study_session(self_profile, req) ==
    LET topic == DictGet(self_profile.preferences, "study_topic",
                         "general topics")
        time_str == Strftime(req.timestamp)
    IN  Response_init(<<"Scheduled study session on '", topic, "' at ",
                        time_str>>,
                      PyFloat(80), TRUE)

Music_handle_request(self_profile, req) ==
    IF req.command_type = RECOMMEND_MUSIC
    THEN recommend_playlist(self_profile, req)
    ELSE Response_init(<<"Sorry, cannot handle that request.">>, PyFloat(0), FALSE)

Fitness_handle_request(self_profile, req) ==
    IF req.command_type = SUGGEST_WORKOUT
    THEN suggest_workout(self_profile, req)
    ELSE Response_init(<<"Sorry, request not recognized.">>, PyFloat(0), FALSE)

\* StudyAssistant.handle_request that also takes what the classifier could
\* not place
Study_handle_request_TakesUnknown(self_profile, req) ==
    IF req.command_type \in {SCHEDULE_STUDY, UNKNOWN}
    THEN schedule_study_session(self_profile, req)
    ELSE Response_init(<<"Unable to handle that request.">>, PyFloat(0), FALSE)

Study_handle_request(self_profile, req) ==
    IF req.command_type = SCHEDULE_STUDY
    THEN schedule_study_session(self_profile, req)
    ELSE Response_init(<<"Unable to handle that request.">>, PyFloat(0), FALSE)

Kinds == {"MusicAssistant", "FitnessAssistant", "StudyAssistant"}

\* the dynamic dispatch of assistant.handle_request(request)
handle_request(k, self_profile, req) ==
    CASE k = "MusicAssistant" -> Music_handle_request(self_profile, req)
      [] k = "FitnessAssistant" -> Fitness_handle_request(self_profile, req)
      [] k = "StudyAssistant" -> Study_handle_request(self_profile, req)

----------------------------------------------------------------------------
(* The inputs of the object-level specification *)

\* ''
Text_empty ==
    <<>>
\* '  \t'
Text_blank ==
    <<" "," ","\t">>
\* 'Can you play some music for me?'
Text_music ==
    <<"C","a","n"," ","y","o","u"," ","p","l","a","y"," ","s","o","m","e",
      " ","m","u","s","i","c"," ","f","o","r"," ","m","e","?">>
\* 'I want a workout plan'
Text_workout ==
    <<"I"," ","w","a","n","t"," ","a"," ","w","o","r","k","o","u","t"," ",
      "p","l","a","n">>
\* 'Please help me schedule a study session'
Text_study ==
    <<"P","l","e","a","s","e"," ","h","e","l","p"," ","m","e"," ","s","c",
      "h","e","d","u","l","e"," ","a"," ","s","t","u","d","y"," ","s","e",
      "s","s","i","o","n">>
\* 'Study with MUSIC'
Text_study_music ==
    <<"S","t","u","d","y"," ","w","i","t","h"," ","M","U","S","I","C">>
\* 'learn to train'
Text_learn_train ==
    <<"l","e","a","r","n"," ","t","o"," ","t","r","a","i","n">>
\* 'hello, trainer'
Text_hello ==
    <<"h","e","l","l","o",","," ","t","r","a","i","n","e","r">>

\* the driver's user_inputs
user_inputs == <<Text_music, Text_workout, Text_study>>

RequestTexts ==
    {Text_empty, Text_blank, Text_music, Text_workout, Text_study,
     Text_study_music, Text_learn_train, Text_hello}

\* 00:00:30 and 00:01:00
Timestamps == {Datetime(1), Datetime(2)}

\* what a caller may pass as Request's command argument
CommandArgs ==
    {None, IntZero, StrValue("music")} \cup {Member(c) : c \in CommandType}

\* what a caller may pass as Response's confidence argument
ConfidenceArgs == {PyFloat(-50), PyFloat(50), PyFloat(150), PyInt(1)}

\* the driver's users
Alice == [name |-> "Alice", age |-> 30,
          preferences |-> [k \in {"mood"} |-> "happy"], is_premium |-> TRUE]
Bob == [name |-> "Bob", age |-> 22,
        preferences |-> [k \in {"fitness_goal"} |-> "cardio"],
        is_premium |-> FALSE]
Carol == [name |-> "Carol", age |-> 25,
          preferences |->
              [k \in {"study_topic"} |-> "object-oriented programming"],
          is_premium |-> FALSE]
users == <<Alice, Bob, Carol>>

\* a user with no preference set
Dave == [name |-> "Dave", age |-> 0,
         preferences |-> [k \in {} |-> ""], is_premium |-> FALSE]

Profiles == {Alice, Bob, Carol, Dave}

\* the Request(...) calls of the object-level specification: every sample
\* text that is not blank with no command, and one of them with each member
AssistantRequestArgs ==
    {<<t, ts, None>> : t \in RequestTexts \ {Text_empty}, ts \in Timestamps}
    \cup {<<Text_hello, ts, Member(c)>> : ts \in Timestamps, c \in CommandType}

----------------------------------------------------------------------------
(* Object-level specification: one assistant bound to one profile, and a   *)
(* caller that constructs Requests and Responses and calls the assistant's *)
(* two methods in any order.                                               *)

Init ==
    /\ kind \in Kinds
    /\ profile \in Profiles
    /\ request = <<>>
    /\ reqArgs = <<>>
    /\ respArgs = <<>>
    /\ op = "init"
    /\ raised = NoException
    /\ parsed = NotRun
    /\ responses = <<>>
    /\ text = <<>>
    /\ pc = "idle"
    /\ idx = 0
    /\ out = <<>>
    /\ now = 0

\* request = Request(t, ts, cmd); request is unbound when the call raises
NewRequest(t, ts, cmd) ==
    \E r \in {Request_init(t, ts, cmd)} :
        /\ reqArgs' = << [input_str |-> t, timestamp |-> ts, command |-> cmd] >>
        /\ request' = r.obj
        /\ raised' = r.raised
        /\ parsed' = r.parsed
        /\ op' = "Request"
        /\ respArgs' = <<>>
        /\ UNCHANGED <<kind, profile, responses, text, pc, idx, out, now>>

\* Response(m, c, a), called directly
NewResponse(m, c, a) ==
    \E r \in {Response_init(m, c, a)} :
        /\ Len(responses) < MaxResponses
        /\ respArgs' = << [message |-> m, confidence |-> c,
                           action_performed |-> a] >>
        /\ responses' = responses \o r.obj
        /\ raised' = r.raised
        /\ parsed' = NotRun
        /\ op' = "Response"
        /\ UNCHANGED <<kind, profile, request, reqArgs, text, pc, idx, out, now>>

\* assistant.greet_user()
GreetUser ==
    \E r \in {greet_user(profile)} :
        /\ Len(responses) < MaxResponses
        /\ responses' = responses \o r.obj
        /\ raised' = r.raised
        /\ parsed' = NotRun
        /\ op' = "greet_user"
        /\ respArgs' = <<>>
        /\ UNCHANGED <<kind, profile, request, reqArgs, text, pc, idx, out, now>>

\* assistant.handle_request(request) with preferences.setdefault in place of
\* preferences.get: the default is stored in the profile
HandleRequest_SetDefault ==
    /\ request # <<>>
    /\ Len(responses) < MaxResponses
    /\ \E r \in {handle_request(kind, profile, request[1])} :
           /\ responses' = responses \o r.obj
           /\ raised' = r.raised
    /\ parsed' = NotRun
    /\ op' = "handle_request"
    /\ respArgs' = <<>>
    /\ profile' =
           IF request[1].command_type = RECOMMEND_MUSIC
              /\ kind = "MusicAssistant"
              /\ "mood" \notin DOMAIN profile.preferences
           THEN [profile EXCEPT !.preferences =
                    [k \in DOMAIN profile.preferences \cup {"mood"} |->
                        IF k = "mood" THEN "neutral"
                        ELSE profile.preferences[k]]]
           ELSE profile
    /\ UNCHANGED <<kind, request, reqArgs, text, pc, idx, out, now>>

\* assistant.handle_request(request)
HandleRequest ==
    /\ request # <<>>
    /\ Len(responses) < MaxResponses
    /\ \E r \in {handle_request(kind, profile, request[1])} :
           /\ responses' = responses \o r.obj
           /\ raised' = r.raised
    /\ parsed' = NotRun
    /\ op' = "handle_request"
    /\ respArgs' = <<>>
    /\ UNCHANGED <<kind, profile, request, reqArgs, text, pc, idx, out, now>>

Next ==
    \/ \E a \in AssistantRequestArgs : NewRequest(a[1], a[2], a[3])
    \/ \E c \in ConfidenceArgs : NewResponse(<<"ok">>, c, TRUE)
    \/ GreetUser
    \/ HandleRequest

Spec == Init /\ [][Next]_vars

----------------------------------------------------------------------------
(* Specification of the Request constructor alone, over every combination  *)
(* of sample text, timestamp and command argument.                         *)

RequestInit == Init /\ kind = "MusicAssistant" /\ profile = Alice

RequestNext ==
    \E t \in RequestTexts, ts \in Timestamps, cmd \in CommandArgs :
        NewRequest(t, ts, cmd)

RequestSpec == RequestInit /\ [][RequestNext]_vars

----------------------------------------------------------------------------
(* The driver: the for loop of the __main__ block, one action per          *)
(* statement.  The loop variables assistant and user_input are kind,       *)
(* profile and text; greet_response and resp are responses[1] and          *)
(* responses[2]; request_obj is request.                                   *)

assistants == <<[kind |-> "MusicAssistant", profile |-> users[1]],
                [kind |-> "FitnessAssistant", profile |-> users[2]],
                [kind |-> "StudyAssistant", profile |-> users[3]]>>

\* the number of dashes of the separator line
SeparatorWidth == 60

RECURSIVE Repeat(_, _)
\* s * n
Repeat(s, n) == IF n = 0 THEN "" ELSE s \o Repeat(s, n - 1)

DriverInit ==
    /\ pc = "for"
    /\ idx = 0
    /\ out = <<>>
    /\ now = 0
    /\ kind = "unbound"
    /\ profile = <<>>
    /\ text = <<>>
    /\ request = <<>>
    /\ reqArgs = <<>>
    /\ respArgs = <<>>
    /\ op = "init"
    /\ raised = NoException
    /\ parsed = NotRun
    /\ responses = <<>>

\* for assistant, user_input in zip(assistants, user_inputs):
DriverFor ==
    /\ pc = "for"
    /\ IF idx < Len(assistants) /\ idx < Len(user_inputs)
       THEN /\ idx' = idx + 1
            /\ kind' = assistants[idx + 1].kind
            /\ profile' = assistants[idx + 1].profile
            /\ text' = user_inputs[idx + 1]
            /\ pc' = "greet"
       ELSE /\ pc' = "done"
            /\ UNCHANGED <<idx, kind, profile, text>>
    /\ UNCHANGED <<parsed, request, reqArgs, respArgs, op, raised, responses,
                   out, now>>

\* greet_response = assistant.greet_user()
DriverGreet ==
    /\ pc = "greet"
    /\ \E r \in {greet_user(profile)} :
           /\ responses' = r.obj
           /\ raised' = r.raised
           /\ pc' = IF r.raised = NoException THEN "print_greet" ELSE "crashed"
    /\ parsed' = NotRun
    /\ op' = "greet_user"
    /\ UNCHANGED <<text, kind, profile, request, reqArgs, respArgs, idx, out, now>>

\* print(greet_response.message)
DriverPrintGreet ==
    /\ pc = "print_greet"
    /\ out' = Append(out, responses[1].message)
    /\ pc' = "echo"
    /\ UNCHANGED <<text, parsed, kind, profile, request, reqArgs, respArgs, op,
                   raised, responses, idx, now>>

\* print(f"User request: '{user_input}'")
DriverEcho ==
    /\ pc = "echo"
    /\ out' = Append(out, <<"User request: '", Str(text), "'">>)
    /\ pc' = "request"
    /\ UNCHANGED <<text, parsed, kind, profile, request, reqArgs, respArgs, op,
                   raised, responses, idx, now>>

\* request_obj = Request(user_input, datetime.now())
DriverRequest ==
    /\ pc = "request"
    /\ \E r \in {Request_init(text, Datetime(now), None)} :
           /\ reqArgs' = << [input_str |-> text, timestamp |-> Datetime(now),
                             command |-> None] >>
           /\ request' = r.obj
           /\ raised' = r.raised
           /\ parsed' = r.parsed
           /\ pc' = IF r.raised = NoException THEN "handle" ELSE "crashed"
    /\ op' = "Request"
    /\ UNCHANGED <<text, kind, profile, respArgs, responses, idx, out, now>>

\* resp = assistant.handle_request(request_obj)
DriverHandle ==
    /\ pc = "handle"
    /\ \E r \in {handle_request(kind, profile, request[1])} :
           /\ responses' = <<responses[1]>> \o r.obj
           /\ raised' = r.raised
           /\ pc' = IF r.raised = NoException THEN "print_resp" ELSE "crashed"
    /\ parsed' = NotRun
    /\ op' = "handle_request"
    /\ UNCHANGED <<text, kind, profile, request, reqArgs, respArgs, idx, out, now>>

\* print(resp.message)
DriverPrintResp ==
    /\ pc = "print_resp"
    /\ out' = Append(out, responses[2].message)
    /\ pc' = "separator"
    /\ UNCHANGED <<text, parsed, kind, profile, request, reqArgs, respArgs, op,
                   raised, responses, idx, now>>

\* the loop body without its last statement
DriverSeparator_Missing ==
    /\ pc = "separator"
    /\ pc' = "for"
    /\ UNCHANGED <<text, parsed, kind, profile, request, reqArgs, respArgs, op,
                   raised, responses, idx, out, now>>

\* print('-' * 60)
DriverSeparator ==
    /\ pc = "separator"
    /\ out' = Append(out, <<Repeat("-", SeparatorWidth)>>)
    /\ pc' = "for"
    /\ UNCHANGED <<text, parsed, kind, profile, request, reqArgs, respArgs, op,
                   raised, responses, idx, now>>

\* the statements of the driver
DriverStep ==
    \/ DriverFor
    \/ DriverGreet
    \/ DriverPrintGreet
    \/ DriverEcho
    \/ DriverRequest
    \/ DriverHandle
    \/ DriverPrintResp
    \/ DriverSeparator

\* time passes while the driver runs
Tick ==
    /\ pc \notin {"done", "crashed"}
    /\ now < MaxClock
    /\ now' = now + 1
    /\ UNCHANGED <<text, parsed, kind, profile, request, reqArgs, respArgs, op,
                   raised, responses, pc, idx, out>>

DriverNext == DriverStep \/ Tick

\* the driver is straight-line code on one thread: it always takes its next
\* step
DriverSpec == DriverInit /\ [][DriverNext]_vars /\ WF_vars(DriverStep)

----------------------------------------------------------------------------
(* Vocabulary of the properties, defined without the program's own search  *)
(* and strip.                                                              *)

\* the words of s: its maximal runs of letters, digits and underscores
WordsOf(s) ==
    LET starts == {i \in DOMAIN s : WordAt(s, i) /\ ~WordAt(s, i - 1)}
        EndOf(i) == CHOOSE j \in i..Len(s) :
                        /\ \A k \in i..j : WordAt(s, k)
                        /\ ~WordAt(s, j + 1)
    IN  {SubSeq(s, i, EndOf(i)) : i \in starts}

\* s has, in any letter case, one of the words ws as a whole word
HasWord(s, ws) == \E w \in WordsOf(s) : Lower(w) \in ws

MusicKeywords == {Kw_music, Kw_song, Kw_play}
WorkoutKeywords == {Kw_workout, Kw_exercise, Kw_train}
StudyKeywords == {Kw_study, Kw_schedule, Kw_learn}

\* s is empty or whitespace only
IsBlank(s) == \A i \in DOMAIN s : s[i] \in Whitespace

\* the one intent each assistant class is for
OwnIntent(k) ==
    CASE k = "MusicAssistant" -> RECOMMEND_MUSIC
      [] k = "FitnessAssistant" -> SUGGEST_WORKOUT
      [] k = "StudyAssistant" -> SCHEDULE_STUDY

\* the Response created last
LastResponse == responses[Len(responses)]

\* rope r has the fragments fs next to each other
Contains(r, fs) ==
    \E i \in 0..(Len(r) - Len(fs)) : \A k \in 1..Len(fs) : r[i + k] = fs[k]

----------------------------------------------------------------------------
(* Properties of the classifier (ClassifySpec) *)

\* C1: parse_intent is first-match-wins in the order music, workout, study:
\* a text with a music keyword as a whole word, in any letter case, is
\* RECOMMEND_MUSIC whatever else it holds; otherwise one with a workout
\* keyword is SUGGEST_WORKOUT whatever study keyword it holds; otherwise one
\* with a study keyword is SCHEDULE_STUDY.
C1_FirstMatchWins ==
    op = "parse_intent" =>
        /\ HasWord(text, MusicKeywords) => parsed = RECOMMEND_MUSIC
        /\ (~HasWord(text, MusicKeywords) /\ HasWord(text, WorkoutKeywords))
               => parsed = SUGGEST_WORKOUT
        /\ (/\ ~HasWord(text, MusicKeywords)
            /\ ~HasWord(text, WorkoutKeywords)
            /\ HasWord(text, StudyKeywords))
               => parsed = SCHEDULE_STUDY

\* a text with a workout keyword before a capitalised music keyword was
\* classified as music
C1_Witness ==
    /\ op = "parse_intent"
    /\ text = <<"T","r","a","i","n">> \o <<" ">> \o <<"S","o","n","g">>
    /\ parsed = RECOMMEND_MUSIC

\* C2: a text in which none of the nine keywords is a whole word is UNKNOWN,
\* also when a keyword is part of a longer word, and when the text is empty.
C2_NoKeywordUnknown ==
    (/\ op = "parse_intent"
     /\ ~HasWord(text, MusicKeywords \cup WorkoutKeywords \cup StudyKeywords))
        => parsed = UNKNOWN

\* 'playing' was classified as UNKNOWN
C2_Witness ==
    /\ op = "parse_intent"
    /\ text = Kw_play \o <<"i","n","g">>
    /\ parsed = UNKNOWN

----------------------------------------------------------------------------
(* Properties of the Request constructor (RequestSpec) *)

\* C5: Request(...) on an empty or whitespace-only text raises, leaves the
\* caller without a Request and does not run the classifier; every Request
\* that exists has a text that is not blank.
C5_BlankInputFails ==
    /\ (op = "Request" /\ IsBlank(reqArgs[1].input_str)) =>
           /\ raised = AssertionError
           /\ request = <<>>
           /\ parsed = NotRun
    /\ request # <<>> => ~IsBlank(request[1].input)

\* a whitespace-only text was refused although a valid command came with it
C5_Witness ==
    /\ op = "Request"
    /\ reqArgs[1].input_str = Text_blank
    /\ reqArgs[1].command = Member(RECOMMEND_MUSIC)
    /\ raised = AssertionError

\* C9: with a text that is not blank, a supplied CommandType member (UNKNOWN
\* too) becomes the Request's command_type whatever the text says, and with
\* no command the command_type is parse_intent of the text.
C9_SuppliedOrInferred ==
    (op = "Request" /\ ~IsBlank(reqArgs[1].input_str)) =>
        /\ reqArgs[1].command.type = "CommandType" =>
               /\ raised = NoException
               /\ request # <<>>
               /\ request[1].command_type = reqArgs[1].command.val
        /\ reqArgs[1].command = None =>
               /\ raised = NoException
               /\ request # <<>>
               /\ request[1].command_type = parse_intent(reqArgs[1].input_str)

\* UNKNOWN was supplied with a text the classifier reads as music, and kept
C9_Witness ==
    /\ op = "Request"
    /\ reqArgs[1].input_str = Text_music
    /\ reqArgs[1].command = Member(UNKNOWN)
    /\ request # <<>>
    /\ request[1].command_type = UNKNOWN
    /\ parse_intent(Text_music) = RECOMMEND_MUSIC

----------------------------------------------------------------------------
(* Properties of the assistants (Spec) *)

\* C3: handle_request of each assistant class performs its action exactly
\* when the request's command_type is the class's own intent; for every
\* other command_type, UNKNOWN included, the response has confidence 0.0 and
\* action_performed false.
C3_OneIntentPerHandler ==
    op = "handle_request" =>
        /\ raised = NoException
        /\ LastResponse.action_performed
               = (request[1].command_type = OwnIntent(kind))
        /\ request[1].command_type # OwnIntent(kind) =>
               /\ LastResponse.confidence = PyFloat(0)
               /\ LastResponse.action_performed = FALSE

\* a Study assistant rejected an UNKNOWN request
C3_Witness ==
    /\ op = "handle_request"
    /\ kind = "StudyAssistant"
    /\ request[1].command_type = UNKNOWN
    /\ LastResponse.action_performed = FALSE

\* C4: every Response that exists has a float confidence in [0.0, 1.0];
\* those of greet_user and handle_request have 0.0, 0.8, 0.85, 0.9 or 1.0;
\* Response(...) with a confidence outside [0.0, 1.0] raises.
C4_ConfidenceInRange ==
    /\ \A i \in DOMAIN responses :
           /\ responses[i].confidence.type = "float"
           /\ responses[i].confidence.val >= 0
           /\ responses[i].confidence.val <= 100
    /\ op \in {"greet_user", "handle_request"} =>
           LastResponse.confidence.val \in {0, 80, 85, 90, 100}
    /\ (/\ op = "Response"
        /\ \/ respArgs[1].confidence.val < 0
           \/ respArgs[1].confidence.val > 100) =>
           raised = AssertionError

\* Response(..., 1.5, ...) was refused while another Response exists
C4_Witness ==
    /\ op = "Response"
    /\ respArgs[1].confidence = PyFloat(150)
    /\ raised = AssertionError
    /\ Len(responses) = 1

\* C6: an accepted request is answered from one preference of the bound
\* profile, with a fixed confidence and action_performed true: mood (default
\* neutral) and two tracks named after it at 0.9, fitness_goal (default
\* general fitness) at 0.85, study_topic (default general topics) at 0.8;
\* 'Can you play some music for me?' with mood happy names 'happy' and the
\* tracks Song_happy_1 and Song_happy_2.
C6_AcceptedResponse ==
    (op = "handle_request" /\ request[1].command_type = OwnIntent(kind)) =>
        LET prefs == profile.preferences
            mood == IF "mood" \in DOMAIN prefs THEN prefs["mood"] ELSE "neutral"
            goal == IF "fitness_goal" \in DOMAIN prefs
                    THEN prefs["fitness_goal"] ELSE "general fitness"
            topic == IF "study_topic" \in DOMAIN prefs
                     THEN prefs["study_topic"] ELSE "general topics"
            r == LastResponse
        IN  /\ r.action_performed = TRUE
            /\ kind = "MusicAssistant" =>
                   /\ r.confidence = PyFloat(90)
                   /\ Contains(r.message,
                               <<"Recommended playlist based on mood '", mood>>)
                   /\ Contains(r.message, <<"Song_", mood, "_1">>)
                   /\ Contains(r.message, <<"Song_", mood, "_2">>)
            /\ kind = "FitnessAssistant" =>
                   /\ r.confidence = PyFloat(85)
                   /\ r.message = <<"Suggested workout: ", "30 minutes of ",
                                    goal, " exercises">>
            /\ kind = "StudyAssistant" =>
                   /\ r.confidence = PyFloat(80)
                   /\ Contains(r.message,
                               <<"Scheduled study session on '", topic>>)
            /\ (/\ kind = "MusicAssistant"
                /\ request[1].input = Text_music
                /\ mood = "happy") =>
                   /\ Contains(r.message, <<"happy">>)
                   /\ Contains(r.message, <<"Song_", "happy", "_1">>)
                   /\ Contains(r.message, <<"Song_", "happy", "_2">>)

\* Alice's Music assistant answered 'Can you play some music for me?'
C6_Witness ==
    /\ op = "handle_request"
    /\ kind = "MusicAssistant"
    /\ profile = Alice
    /\ request[1].input = Text_music
    /\ reqArgs[1].command = None
    /\ LastResponse.action_performed = TRUE

\* C8: no step changes the bound UserProfile or the assistant's class,
\* greet_user and handle_request leave the Request as it is, and a Response
\* once created keeps its fields.
C8_NoMutation ==
    [][/\ profile' = profile
       /\ kind' = kind
       /\ op' \in {"greet_user", "handle_request"} => request' = request
       /\ Len(responses') >= Len(responses)
       /\ SubSeq(responses', 1, Len(responses)) = responses]_vars

\* greet_user then handle_request ran on a profile without the preference
\* the handler reads
C8_Witness ==
    /\ op = "handle_request"
    /\ Len(responses) = 2
    /\ profile = Dave
    /\ request[1].command_type = OwnIntent(kind)
    /\ responses[1].message[1] = "Hello, "

\* C10: for a Request built from its text alone, the handler performs its
\* action exactly when parse_intent of the text is the handler's intent, and
\* otherwise rejects with confidence 0.0: the Study handler rejects
\* 'I want a workout plan' and any text that has a music or workout keyword
\* beside a study keyword, and every handler rejects a text with no keyword.
C10_EndToEnd ==
    (op = "handle_request" /\ reqArgs[1].command = None) =>
        LET t == request[1].input
            accepted == LastResponse.action_performed
        IN  /\ t = reqArgs[1].input_str
            /\ accepted = (parse_intent(t) = OwnIntent(kind))
            /\ ~accepted => LastResponse.confidence = PyFloat(0)
            /\ (t = Text_workout /\ kind = "StudyAssistant") => ~accepted
            /\ (/\ kind = "StudyAssistant"
                /\ HasWord(t, StudyKeywords)
                /\ HasWord(t, MusicKeywords \cup WorkoutKeywords))
                   => ~accepted
            /\ ~HasWord(t, MusicKeywords \cup WorkoutKeywords \cup StudyKeywords)
                   => ~accepted

\* the Study assistant rejected 'I want a workout plan'
C10_Witness ==
    /\ op = "handle_request"
    /\ kind = "StudyAssistant"
    /\ reqArgs[1].command = None
    /\ request[1].input = Text_workout
    /\ LastResponse.confidence = PyFloat(0)
    /\ LastResponse.action_performed = FALSE

----------------------------------------------------------------------------
(* Properties of the driver (DriverSpec) *)

\* the line the driver is to print in place j of its output
ExpectedLine(j, line) ==
    LET k == ((j - 1) \div 4) + 1
        m == (j - 1) % 4
    IN  CASE m = 0 ->
                 line = <<"Hello, ", <<"Alice", "Bob", "Carol">>[k],
                          "! How can assistance begin today?">>
          [] m = 1 ->
                 line = <<"User request: '",
                          <<"Can you play some music for me?",
                            "I want a workout plan",
                            "Please help me schedule a study session">>[k],
                          "'">>
          [] m = 2 ->
                 IF k = 1
                 THEN line = <<"Recommended playlist based on mood '",
                               "happy", "': ", "['", "Song_", "happy", "_1",
                               "', '", "Song_", "happy", "_2", "']">>
                 ELSE IF k = 2
                 THEN line = <<"Suggested workout: ", "30 minutes of ",
                               "cardio", " exercises">>
                 ELSE /\ Len(line) = 4
                      /\ SubSeq(line, 1, 3) =
                             <<"Scheduled study session on '",
                               "object-oriented programming", "' at ">>
          [] m = 3 ->
                 line = <<"------------------------------------------------------------">>

C7_Outputs ==
    /\ Len(out) <= 12
    /\ \A j \in DOMAIN out : ExpectedLine(j, out[j])
    /\ pc # "crashed"
    /\ pc = "done" => Len(out) = 12

\* C7: the driver prints, for the three pairs in list order, the greeting,
\* the echo of the request text, the response message and the separator,
\* nothing else and nothing out of order, and it terminates with 12 lines
\* printed.
C7_DriverOutput == []C7_Outputs /\ <>(pc = "done")

\* the driver has finished after printing its 12 lines
C7_Witness == pc = "done" /\ Len(out) = 12 /\ idx = 3

=============================================================================
